---- MODULE Spec2Model ----
(***************************************************************************)
(* A model of the NBA ETL pipeline: the entity builders of transform.py   *)
(* as operators over row sequences (DataFrames), and the load reconciler  *)
(* of load.py as a state machine over a SQLite store with a connection    *)
(* view (db) and a durable, committed view (disk).                        *)
(*                                                                         *)
(* Rows carry the key columns of every table and one or two               *)
(* representative pass-through columns; the remaining pass-through         *)
(* columns of the source are copied unchanged by the code and are left    *)
(* out.  A nullable value is a set with at most one element: Null is {}    *)
(* and a present value v is {v}.                                           *)
(***************************************************************************)
EXTENDS Integers, Sequences, FiniteSets, TLC

Null == {}
Some(v) == {v}
IsNull(x) == x = {}
Val(x) == CHOOSE v \in x : TRUE

Range(s) == {s[i] : i \in 1..Len(s)}

\* The rows of s at the positions in I, in their order in s.
Pick(s, I) ==
  LET F[i \in 0..Len(s)] ==
        IF i = 0 THEN <<>>
        ELSE IF i \in I THEN Append(F[i - 1], s[i]) ELSE F[i - 1]
  IN F[Len(s)]

\* s1 followed by every sequence of ss: pd.concat(..., ignore_index=True).
Concat(ss) ==
  LET F[i \in 0..Len(ss)] == IF i = 0 THEN <<>> ELSE F[i - 1] \o ss[i]
  IN F[Len(ss)]

\* Faulty variant of DropDuplicates: the last row of every key is kept.
DropDuplicatesKeepLast(s, key) ==
  Pick(s, {i \in 1..Len(s) :
             \A j \in (i + 1)..Len(s) : key[s[j]] # key[s[i]]})

\* DataFrame.drop_duplicates(subset=key): keep the first row of every key.
\* key maps every row of s to its value in the subset columns.
DropDuplicates(s, key) ==
  Pick(s, {i \in 1..Len(s) : \A j \in 1..(i - 1) : key[s[j]] # key[s[i]]})

\* DataFrame.sort_values(col) on rows whose keys are pairwise distinct.
SortValues(s, key) ==
  [i \in 1..Len(s) |->
     CHOOSE x \in Range(s) :
       Cardinality({y \in Range(s) : key[y] < key[x]}) = i - 1]

\* Series.unique(): the distinct values of a column.
Unique(s, key) == {key[s[i]] : i \in 1..Len(s)}

(***************************************************************************)
(* config.py                                                               *)
(***************************************************************************)
BATCH_SIZE == 30

\* The bound-parameter ceiling of one SQLite statement that the comment on
\* BATCH_SIZE names.
SQLITE_MAX_VARIABLE_NUMBER == 999

LOAD_MODE == "UPSERT"

LoadModes == {"FULL_REFRESH", "UPSERT", "MIRROR"}

(***************************************************************************)
(* load.py: the schema.  TableNames is the key order of the DDL dict.      *)
(***************************************************************************)
TableNames ==
  << "dim_teams", "dim_players", "dim_arenas", "dim_dates",
     "fact_player_roster", "fact_games", "fact_team_game_stats",
     "fact_player_game_stats", "fact_play_by_play", "fact_game_leaders" >>

AllTables == Range(TableNames)

\* PRIMARY KEY of each table, as the value a row is identified by.
PrimaryKey(t, r) ==
  CASE t = "dim_teams"   -> r.team_id
    [] t = "dim_players" -> r.player_id
    [] t = "dim_arenas"  -> r.arena_id
    [] t = "dim_dates"   -> r.date_id
    [] t = "fact_player_roster" -> <<r.player_id, r.team_id, r.season>>
    [] t = "fact_games"  -> r.game_id
    [] t = "fact_team_game_stats"   -> <<r.game_id, r.team_id>>
    [] t = "fact_player_game_stats" -> <<r.game_id, r.player_id>>
    [] t = "fact_play_by_play"      -> <<r.game_id, r.action_number>>
    [] t = "fact_game_leaders" ->
         <<r.game_id, r.team_id, r.player_id, r.stat_type>>

\* The number of columns the DDL declares for each table.
ColumnCount(t) ==
  CASE t = "dim_teams"   -> 6
    [] t = "dim_players" -> 14
    [] t = "dim_arenas"  -> 4
    [] t = "dim_dates"   -> 6
    [] t = "fact_player_roster" -> 10
    [] t = "fact_games"  -> 26
    [] t = "fact_team_game_stats"   -> 27
    [] t = "fact_player_game_stats" -> 23
    [] t = "fact_play_by_play"      -> 30
    [] t = "fact_game_leaders"      -> 5

\* FOREIGN KEY ... REFERENCES of the DDL: <<table, referenced table>>.
References ==
  { <<"fact_player_roster", "dim_players">>,
    <<"fact_player_roster", "dim_teams">>,
    <<"fact_games", "dim_dates">>,
    <<"fact_games", "dim_arenas">>,
    <<"fact_games", "dim_teams">>,
    <<"fact_team_game_stats", "fact_games">>,
    <<"fact_team_game_stats", "dim_teams">>,
    <<"fact_player_game_stats", "fact_games">>,
    <<"fact_player_game_stats", "dim_players">>,
    <<"fact_player_game_stats", "dim_teams">>,
    <<"fact_play_by_play", "fact_games">>,
    <<"fact_play_by_play", "dim_teams">>,
    <<"fact_play_by_play", "dim_players">>,
    <<"fact_game_leaders", "fact_games">>,
    <<"fact_game_leaders", "dim_teams">>,
    <<"fact_game_leaders", "dim_players">> }

\* The nullable-valued columns of the model that the DDL declares NOT NULL.
NotNullOk(t, r) ==
  CASE t = "fact_player_roster" -> ~IsNull(r.season)
    [] t = "fact_play_by_play"  ->
         ~IsNull(r.location) /\ ~IsNull(r.description)
    [] t = "fact_game_leaders"  -> ~IsNull(r.team_id) /\ ~IsNull(r.value)
    [] OTHER -> TRUE

(***************************************************************************)
(* transform.py: the entity builders.  A DataFrame is a sequence of rows.  *)
(***************************************************************************)

\* str.lower().str.replace(' ', '-') on the team names of the model.
Slugify(name) ==
  CASE name = "Lakers"        -> "lakers"
    [] name = "Celtics"       -> "celtics"
    [] name = "Trail Blazers" -> "trail-blazers"
    [] OTHER -> name

build_dim_teams(players_df, schedule_df) ==
  LET teams_players ==
        [i \in 1..Len(players_df) |->
           [team_id    |-> players_df[i].teamId,
            team_name  |-> players_df[i].teamName,
            team_slug  |-> Slugify(players_df[i].teamName),
            is_defunct |-> players_df[i].teamIsDefunct # 0]]
      home ==
        [i \in 1..Len(schedule_df) |->
           [team_id    |-> schedule_df[i].homeTeam_teamId,
            team_name  |-> schedule_df[i].homeTeam_teamName,
            team_slug  |-> schedule_df[i].homeTeam_teamSlug,
            is_defunct |-> FALSE]]
      away ==
        [i \in 1..Len(schedule_df) |->
           [team_id    |-> schedule_df[i].awayTeam_teamId,
            team_name  |-> schedule_df[i].awayTeam_teamName,
            team_slug  |-> schedule_df[i].awayTeam_teamSlug,
            is_defunct |-> FALSE]]
      teams == Concat(<<teams_players, home, away>>)
      team_id == [r \in Range(teams) |-> r.team_id]
  IN SortValues(DropDuplicates(teams, team_id), team_id)

build_dim_players(players_df) ==
  LET renamed ==
        [i \in 1..Len(players_df) |->
           [player_id  |-> players_df[i].playerId,
            first_name |-> players_df[i].firstName]]
  IN DropDuplicates(renamed, [r \in Range(renamed) |-> r.player_id])

ArenaTuple(s) == <<s.arenaName, s.arenaCity, s.arenaState>>

\* Faulty variant of build_dim_arenas: the arenas that lack a state are
\* dropped before the keys are given.
build_dim_arenas_dropna(schedule_df) ==
  LET HasState(s) == ~IsNull(s.arenaState)
      complete == SelectSeq(schedule_df, HasState)
      arenas == DropDuplicates(complete,
                               [s \in Range(complete) |-> ArenaTuple(s)])
  IN [i \in 1..Len(arenas) |->
        [arena_id    |-> i - 1,
         arena_name  |-> arenas[i].arenaName,
         arena_city  |-> arenas[i].arenaCity,
         arena_state |-> arenas[i].arenaState]]

\* Faulty variant of build_dim_arenas: drop_duplicates is missing, every
\* schedule row becomes an arena.
build_dim_arenas_no_dedup(schedule_df) ==
  [i \in 1..Len(schedule_df) |->
     [arena_id    |-> i - 1,
      arena_name  |-> schedule_df[i].arenaName,
      arena_city  |-> schedule_df[i].arenaCity,
      arena_state |-> schedule_df[i].arenaState]]

build_dim_arenas(schedule_df) ==
  LET arenas == DropDuplicates(schedule_df,
                               [s \in Range(schedule_df) |-> ArenaTuple(s)])
  IN [i \in 1..Len(arenas) |->
        [arena_id    |-> i - 1,
         arena_name  |-> arenas[i].arenaName,
         arena_city  |-> arenas[i].arenaCity,
         arena_state |-> arenas[i].arenaState]]

\* strftime('%Y%m%d').astype(int) of a timestamp: the time of day is lost.
DateId(dt) == dt.y * 10000 + dt.m * 100 + dt.d

IsLeap(y) == (y % 4 = 0 /\ y % 100 # 0) \/ y % 400 = 0

DayOfYear(dt) ==
  LET before == <<0, 31, 59, 90, 120, 151, 181, 212, 243, 273, 304, 334>>
  IN before[dt.m] + dt.d + (IF dt.m > 2 /\ IsLeap(dt.y) THEN 1 ELSE 0)

\* Series.dt.dayofweek + 1: Monday is 1, Sunday is 7.
DayOfWeek(dt) ==
  LET t == <<0, 3, 2, 5, 0, 3, 5, 1, 4, 6, 2, 4>>
      y == IF dt.m < 3 THEN dt.y - 1 ELSE dt.y
      sun0 == (y + (y \div 4) - (y \div 100) + (y \div 400) + t[dt.m] + dt.d) % 7
  IN IF sun0 = 0 THEN 7 ELSE sun0

\* Series.dt.isocalendar().week
WeeksInYear(y) ==
  LET P(n) == (n + (n \div 4) - (n \div 100) + (n \div 400)) % 7
  IN IF P(y) = 4 \/ P(y - 1) = 3 THEN 53 ELSE 52

WeekNumber(dt) ==
  LET w == (DayOfYear(dt) - DayOfWeek(dt) + 10) \div 7
  IN IF w < 1 THEN WeeksInYear(dt.y - 1)
     ELSE IF w > WeeksInYear(dt.y) THEN 1 ELSE w

build_dim_dates(schedule_df) ==
  LET dates == DropDuplicates(schedule_df,
                              [s \in Range(schedule_df) |-> s.gameDateEst])
  IN [i \in 1..Len(dates) |->
        [date_id     |-> DateId(dates[i].gameDateEst),
         full_date   |-> dates[i].gameDateEst,
         year        |-> dates[i].gameDateEst.y,
         month       |-> dates[i].gameDateEst.m,
         day_of_week |-> DayOfWeek(dates[i].gameDateEst),
         week_number |-> WeekNumber(dates[i].gameDateEst)]]

build_fact_player_roster(players_df) ==
  LET HasSeason(p) == ~IsNull(p.season)
      roster == SelectSeq(players_df, HasSeason)
  IN [i \in 1..Len(roster) |->
        [player_id  |-> roster[i].playerId,
         team_id    |-> roster[i].teamId,
         season     |-> roster[i].season,
         jersey_num |-> roster[i].jerseyNum]]

\* schedule_df.merge(arenas_df, how='left') on the arena tuple, then the rows
\* left without an arena_id are dropped.
build_fact_games(schedule_df, arenas_df) ==
  LET Matches(s) ==
        SelectSeq(arenas_df,
                  LAMBDA a : <<a.arena_name, a.arena_city, a.arena_state>>
                             = ArenaTuple(s))
      Joined(s) ==
        [j \in 1..Len(Matches(s)) |->
           [game_id      |-> s.gameId,
            game_date_id |-> DateId(s.gameDateEst),
            arena_id     |-> Matches(s)[j].arena_id,
            home_team_id |-> s.homeTeam_teamId,
            away_team_id |-> s.awayTeam_teamId,
            home_score   |-> s.homeTeam_score,
            away_score   |-> s.awayTeam_score]]
  IN Concat([i \in 1..Len(schedule_df) |-> Joined(schedule_df[i])])

build_fact_team_game_stats(boxscore_df) ==
  LET home ==
        [i \in 1..Len(boxscore_df) |->
           [game_id      |-> boxscore_df[i].gameId,
            team_id      |-> boxscore_df[i].homeTeam_teamId,
            points       |-> boxscore_df[i].homeTeam_statistics_points,
            is_home_team |-> TRUE]]
      away ==
        [i \in 1..Len(boxscore_df) |->
           [game_id      |-> boxscore_df[i].gameId,
            team_id      |-> boxscore_df[i].awayTeam_teamId,
            points       |-> boxscore_df[i].awayTeam_statistics_points,
            is_home_team |-> FALSE]]
  IN Concat(<<home, away>>)

\* What is not a dict when a player list is iterated: a key of a single dict,
\* or the None of a missing list.
NotADict == [isdict |-> FALSE, personId |-> Null, starter |-> "", points |-> 0]

\* Python truthiness of p.get('personId').
Truthy(x) == ~IsNull(x) /\ Val(x) # 0

\* The sequence the code iterates for one team's players value.
PlayerEntries(data) ==
  CASE data.kind = "list"    -> data.items
    [] data.kind = "json"    -> data.items
    [] data.kind = "badjson" -> <<>>
    [] data.kind = "dict"    -> [k \in 1..Len(data.items) |-> NotADict]
    [] data.kind = "none"    -> <<NotADict>>

\* Faulty variant of PlayerRows: the test on personId is missing, an entry
\* without one becomes a row of player 0.
PlayerRowsNoIdCheck(game_id, team_id, data) ==
  LET Keep(p) == p.isdict
      kept == SelectSeq(PlayerEntries(data), Keep)
  IN [i \in 1..Len(kept) |->
        [game_id   |-> game_id,
         player_id |-> IF IsNull(kept[i].personId) THEN 0
                       ELSE Val(kept[i].personId),
         team_id   |-> team_id,
         starter   |-> kept[i].starter = "1",
         points    |-> kept[i].points]]

PlayerRows(game_id, team_id, data) ==
  LET Keep(p) == p.isdict /\ Truthy(p.personId)
      kept == SelectSeq(PlayerEntries(data), Keep)
  IN [i \in 1..Len(kept) |->
        [game_id   |-> game_id,
         player_id |-> Val(kept[i].personId),
         team_id   |-> team_id,
         starter   |-> kept[i].starter = "1",
         points    |-> kept[i].points]]

\* game_had_players when the loop body for one boxscore record has run.
game_had_players(game) ==
  \/ PlayerRows(game.gameId, game.homeTeam_teamId, game.homeTeam_players) # <<>>
  \/ PlayerRows(game.gameId, game.awayTeam_teamId, game.awayTeam_players) # <<>>

\* skipped_games when the loop over the boxscore records has ended.
skipped_games(boxscore_df) ==
  Cardinality({i \in 1..Len(boxscore_df) : ~game_had_players(boxscore_df[i])})

build_fact_player_game_stats(boxscore_df) ==
  Concat([i \in 1..Len(boxscore_df) |->
            PlayerRows(boxscore_df[i].gameId, boxscore_df[i].homeTeam_teamId,
                       boxscore_df[i].homeTeam_players)
            \o
            PlayerRows(boxscore_df[i].gameId, boxscore_df[i].awayTeam_teamId,
                       boxscore_df[i].awayTeam_players)])

\* Faulty variant of FillNa: the column is left as it was read.
FillNaMissing(x) == x

\* Series.fillna('')
FillNa(x) == IF IsNull(x) THEN Some("") ELSE x

build_fact_play_by_play(pbp_df) ==
  [i \in 1..Len(pbp_df) |->
     [game_id       |-> pbp_df[i].gameId,
      action_number |-> pbp_df[i].actionNumber,
      team_id       |-> pbp_df[i].teamId,
      player_id     |-> pbp_df[i].personId,
      location      |-> FillNa(pbp_df[i].location),
      description   |-> FillNa(pbp_df[i].description)]]

\* The rows of one schedule record's pointsLeaders value.
LeaderRows(game) ==
  LET data == game.pointsLeaders
      FlatKeep(l) == l.isdict /\ Truthy(l.personId)
      flat == SelectSeq(data.items, FlatKeep)
      NestedKeep(l) == l.isdict /\ Truthy(l.personId)
      Nested(team_id, entries) ==
        LET kept == SelectSeq(entries, NestedKeep)
        IN [i \in 1..Len(kept) |->
              [game_id   |-> game.gameId,
               team_id   |-> Some(team_id),
               player_id |-> Val(kept[i].personId),
               stat_type |-> kept[i].stat_type,
               value     |-> kept[i].value]]
  IN CASE data.kind = "list" ->
            [i \in 1..Len(flat) |->
               [game_id   |-> game.gameId,
                team_id   |-> flat[i].teamId,
                player_id |-> Val(flat[i].personId),
                stat_type |-> "points",
                value     |-> flat[i].value]]
       [] data.kind = "legacy" ->
            Nested(game.homeTeam_teamId, data.home)
            \o Nested(game.awayTeam_teamId, data.away)
       [] data.kind = "badjson" -> <<>>
       [] data.kind = "none"    -> <<>>

\* leaders['homeLeaders'].items() on decoded JSON text whose homeLeaders or
\* awayLeaders member is not a dict: an AttributeError, which the except
\* clause of the loop body does not name.
LeadersRaise(game) == game.pointsLeaders.kind = "legacy_list"

build_fact_game_leaders(schedule_df) ==
  Concat([i \in 1..Len(schedule_df) |-> LeaderRows(schedule_df[i])])

transform_all(raw_data) ==
  LET dim_arenas == build_dim_arenas(raw_data.schedule)
  IN [dim_teams   |-> build_dim_teams(raw_data.players, raw_data.schedule),
      dim_players |-> build_dim_players(raw_data.players),
      dim_arenas  |-> dim_arenas,
      dim_dates   |-> build_dim_dates(raw_data.schedule),
      fact_player_roster     |-> build_fact_player_roster(raw_data.players),
      fact_games             |-> build_fact_games(raw_data.schedule, dim_arenas),
      fact_team_game_stats   |-> build_fact_team_game_stats(raw_data.boxscore),
      fact_player_game_stats |-> build_fact_player_game_stats(raw_data.boxscore),
      fact_play_by_play      |-> build_fact_play_by_play(raw_data.pbp),
      fact_game_leaders      |-> build_fact_game_leaders(raw_data.schedule)]

\* What transform_all raises for an extract, "none" when it returns: the
\* play-by-play builder runs before the leaders builder.
TransformError(raw_data) ==
  IF raw_data.absent_columns # {} THEN "KeyError"
  ELSE IF \E k \in 1..Len(raw_data.schedule) : LeadersRaise(raw_data.schedule[k])
       THEN "AttributeError"
       ELSE "none"

(***************************************************************************)
(* Source extracts (extract.py reads them; their content is the input).    *)
(***************************************************************************)
TeamName(t) ==
  CASE t = 1 -> "Lakers" [] t = 2 -> "Celtics" [] OTHER -> "Trail Blazers"

PlayerRec(pid, fname, tid, season, jersey) ==
  [playerId |-> pid, firstName |-> fname, teamId |-> tid,
   teamName |-> TeamName(tid), teamIsDefunct |-> 0,
   season |-> season, jerseyNum |-> jersey]

Day(d, h) == [y |-> 2024, m |-> 12, d |-> d, h |-> h]

Arena(name, city, state) == [name |-> name, city |-> city, state |-> state]
ArenaA == Arena("Crypto.com Arena", "Los Angeles", Some("CA"))
ArenaB == Arena("Accor Arena", "Paris", Null)

GameRec(gid, date, arena, home, away, hs, as, leaders) ==
  [gameId |-> gid, gameDateEst |-> date,
   arenaName |-> arena.name, arenaCity |-> arena.city,
   arenaState |-> arena.state,
   homeTeam_teamId |-> home, homeTeam_teamName |-> TeamName(home),
   homeTeam_teamSlug |-> Slugify(TeamName(home)),
   awayTeam_teamId |-> away, awayTeam_teamName |-> TeamName(away),
   awayTeam_teamSlug |-> Slugify(TeamName(away)),
   homeTeam_score |-> hs, awayTeam_score |-> as,
   pointsLeaders |-> leaders]

Leader(pid, tid, stat, val) ==
  [isdict |-> TRUE, personId |-> pid, teamId |-> tid,
   stat_type |-> stat, value |-> val]
FlatLeaders(items) ==
  [kind |-> "list", items |-> items, home |-> <<>>, away |-> <<>>]
LegacyLeaders(home, away) ==
  [kind |-> "legacy", items |-> <<>>, home |-> home, away |-> away]
NoLeaders(kind) ==
  [kind |-> kind, items |-> <<>>, home |-> <<>>, away |-> <<>>]
\* JSON text whose homeLeaders member is a list of records, not a dict.
ListLeaders(home, away) ==
  [kind |-> "legacy_list", items |-> <<>>, home |-> home, away |-> away]

PlayerEntry(pid, starter, pts) ==
  [isdict |-> TRUE, personId |-> pid, starter |-> starter, points |-> pts]
Players(kind, items) == [kind |-> kind, items |-> items]

BoxRec(gid, home, away, hp, ap, hplayers, aplayers) ==
  [gameId |-> gid, homeTeam_teamId |-> home, awayTeam_teamId |-> away,
   homeTeam_statistics_points |-> hp, awayTeam_statistics_points |-> ap,
   homeTeam_players |-> hplayers, awayTeam_players |-> aplayers]

PlayRec(gid, n, team, person, loc, desc) ==
  [gameId |-> gid, actionNumber |-> n, teamId |-> team, personId |-> person,
   location |-> loc, description |-> desc]

\* The roster extract of the season, and the variations of it.
PlayersBase ==
  << PlayerRec(7, "Ann", 1, Some("2024"), "23"),
     PlayerRec(8, "Bob", 2, Some("2024"), "0") >>
PlayersVariants ==
  { <<>>,
    << [PlayerRec(7, "Ann", 1, Some("2023"), "23")
          EXCEPT !.teamIsDefunct = 1],
       PlayerRec(7, "Ann", 1, Some("2024"), "23"),
       PlayerRec(8, "Bob", 3, Null, "0") >>,
    << PlayerRec(7, "Anne", 1, Some("2024"), "24") >>,
    << PlayerRec(7, "Ann", 1, Some("2024"), "23"),
       PlayerRec(7, "Ann", 1, Some("2024"), "32") >> }

G1 == GameRec("G1", Day(30, 0), ArenaA, 1, 2, 100, 98,
              FlatLeaders(<< Leader(Some(7), Some(1), "points", Some(30)),
                             Leader(Null, Some(2), "points", Some(28)) >>))
G1Late == GameRec("G1", Day(30, 0), ArenaA, 1, 2, 101, 98,
              FlatLeaders(<< Leader(Some(7), Some(1), "points", Some(31)) >>))
G2 == GameRec("G2", Day(31, 0), ArenaB, 2, 3, 90, 95,
              LegacyLeaders(<< Leader(Some(8), Null, "points", Some(20)) >>,
                            << Leader(Some(0), Null, "points", Some(25)) >>))
G2SameDay == GameRec("G2", Day(30, 19), ArenaA, 2, 3, 90, 95,
                     NoLeaders("none"))
G2ListLeaders == GameRec("G2", Day(31, 0), ArenaB, 2, 3, 90, 95,
                   ListLeaders(<< Leader(Some(8), Null, "points", Some(20)) >>,
                               << Leader(Some(9), Null, "points", Some(25)) >>))

ScheduleBase == << G1 >>
ScheduleVariants ==
  { <<>>, << G1Late, G2 >>, << G2 >>, << G1, G2SameDay >> }

Box1 == BoxRec("G1", 1, 2, 100, 98,
               Players("list", << PlayerEntry(Some(7), "1", 30),
                                  PlayerEntry(Null, "0", 2) >>),
               Players("json", << PlayerEntry(Some(8), "0", 28) >>))
Box1Late == BoxRec("G1", 1, 2, 101, 98,
               Players("list", << PlayerEntry(Some(7), "1", 31),
                                  PlayerEntry(Some(0), "0", 0) >>),
               Players("none", <<>>))
Box2 == BoxRec("G2", 2, 3, 90, 95,
               Players("dict", << PlayerEntry(Some(8), "1", 20) >>),
               Players("badjson", <<>>))

BoxscoreBase == << Box1 >>
BoxscoreVariants == { <<>>, << Box1Late, Box2 >>, << Box2 >> }

PbpBase ==
  << PlayRec("G1", 1, Some(1), Some(7), Some("h"), Some("jump shot")),
     PlayRec("G1", 2, Null, Null, Null, Null) >>
PbpVariants ==
  { <<>>,
    << PlayRec("G1", 1, Some(1), Some(7), Some("h"), Some("layup")),
       PlayRec("G2", 1, Some(3), Some(9), Some("v"), Null) >> }

\* absent_columns: the columns the builders select that the extract lacks.
BaseSource ==
  [players |-> PlayersBase, schedule |-> ScheduleBase,
   boxscore |-> BoxscoreBase, pbp |-> PbpBase, absent_columns |-> {}]

\* The extracts with every column that a run may read: the base extract, the
\* base with one dataset replaced, and the two-game extract with its
\* boxscores and plays.
Sources ==
  {BaseSource}
  \cup {[BaseSource EXCEPT !.players = p] : p \in PlayersVariants}
  \cup {[BaseSource EXCEPT !.schedule = x] : x \in ScheduleVariants}
  \cup {[BaseSource EXCEPT !.boxscore = b] : b \in BoxscoreVariants}
  \cup {[BaseSource EXCEPT !.pbp = q] : q \in PbpVariants}
  \cup {[players |-> PlayersBase, schedule |-> << G1Late, G2 >>,
         boxscore |-> << Box1Late, Box2 >>, pbp |-> q,
         absent_columns |-> {}] : q \in PbpVariants}

\* The base extract with a play-by-play dataset that has no location column.
SourceWithoutLocation == [BaseSource EXCEPT !.absent_columns = {"location"}]

\* The base extract with a second game whose leaders text has a list where
\* the builder expects a dict.
SourceWithListLeaders ==
  [BaseSource EXCEPT !.schedule = << G1, G2ListLeaders >>]

NoSource ==
  [players |-> <<>>, schedule |-> <<>>, boxscore |-> <<>>, pbp |-> <<>>,
   absent_columns |-> {}]

\* What read_parquet_source raises for a path that is neither a file nor a
\* directory, and for a directory without parquet files (a ValueError).
ExtractErrors == {"FileNotFoundError", "NoParquetFiles"}

\* The extract and the LOAD_MODE of a run: every complete extract in the two
\* modes load_all knows, the base extract in a mode it does not know, and the
\* extracts a builder raises on in the mode config.py sets.
RunInputs ==
  {<<s, m>> : s \in Sources, m \in {"FULL_REFRESH", "UPSERT"}}
  \cup {<<BaseSource, m>> : m \in LoadModes \ {"FULL_REFRESH", "UPSERT"}}
  \cup {<<SourceWithoutLocation, LOAD_MODE>>,
        <<SourceWithListLeaders, LOAD_MODE>>}

\* The number of pipeline runs of one behaviour.
MaxRuns == 2

(***************************************************************************)
(* The store and the run.                                                  *)
(*   schema    the tables that exist (DDL runs outside any transaction)    *)
(*   db        the rows the connection sees                                *)
(*   disk      the committed rows: what remains when the connection closes *)
(*   tables    the row-sets transform_all returned                         *)
(*   prev      the source, mode, outcome and store of the previous run     *)
(*   commits   the commits of the run so far, in order                     *)
(*   ops       the DROP, DELETE and bulk insert calls of the run so far    *)
(***************************************************************************)
VARIABLES mode, src, tables, schema, db, disk, pc, i, game_ids, outcome,
          runs, prev, commits, ops

vars == <<mode, src, tables, schema, db, disk, pc, i, game_ids, outcome,
          runs, prev, commits, ops>>

EmptyStore == [t \in AllTables |-> {}]

\* cursor.execute of a DROP or DELETE on table t, or df.to_sql into t; ids
\* are the game_id values bound to a DELETE ... WHERE game_id IN (...), params
\* the largest number of values bound at once: by one statement of a DELETE,
\* by one batch of a to_sql.
Executed(log, op, t, ids, params) ==
  Append(log, [op |-> op, table |-> t, game_ids |-> ids, params |-> params])

\* Faulty variant of Commit: the call is missing.
CommitMissing(log, point) == log

\* conn.commit() at the named point of load.py.
Commit(log, point) == Append(log, [by |-> "conn.commit", at |-> point])

\* The commit of DataFrame.to_sql: the rows are inserted in one transaction
\* that to_sql commits itself; for an empty frame it opens none.
ToSqlCommit(log, t, rows) ==
  IF rows = <<>> THEN log ELSE Append(log, [by |-> "to_sql", at |-> t])

Keys(t, rows) == {PrimaryKey(t, r) : r \in rows}

\* Faulty variant of Chunks: the chunksize argument is missing, to_sql writes
\* the frame as one batch.
ChunksWhole(rows) == IF rows = <<>> THEN <<>> ELSE <<rows>>

\* DataFrame.to_sql(..., chunksize=BATCH_SIZE): the row batches, in order.
Chunks(rows) ==
  [k \in 1..((Len(rows) + BATCH_SIZE - 1) \div BATCH_SIZE) |->
     SubSeq(rows, (k - 1) * BATCH_SIZE + 1,
            IF k * BATCH_SIZE < Len(rows) THEN k * BATCH_SIZE ELSE Len(rows))]

\* The values the largest batch of a to_sql into t binds: rows times columns.
BatchParameters(t, rows) ==
  LET sizes == {Len(Chunks(rows)[k]) * ColumnCount(t) :
                  k \in 1..Len(Chunks(rows))}
  IN IF sizes = {} THEN 0 ELSE CHOOSE n \in sizes : \A m \in sizes : m <= n

\* ','.join('?' * len(pk_values)): one parameter for every key of the list.
DeleteParameters(pk_values) == Cardinality(pk_values)

\* Every row of every batch is accepted by the table: the PRIMARY KEY is new
\* and the NOT NULL columns are set.  FOREIGN KEY clauses are not checked: the
\* connection never sets PRAGMA foreign_keys.
InsertAccepted(t, stored, rows) ==
  LET all == Range(Concat(Chunks(rows)))
  IN /\ {r \in all : ~NotNullOk(t, r)} = {}
     /\ Keys(t, all) \cap Keys(t, stored) = {}
     /\ Cardinality(Keys(t, all)) = Len(rows)

Inserted(stored, rows) == stored \cup Range(Concat(Chunks(rows)))

\* Faulty variant of DeleteWhereIn, a mirror instead of a merge: DELETE FROM t
\* without the WHERE clause.
DeleteAllRows(t, stored, pk_values) == {}

\* DELETE FROM t WHERE pk IN (pk_values)
DeleteWhereIn(t, stored, pk_values) ==
  {r \in stored : PrimaryKey(t, r) \notin pk_values}

\* Faulty variant of DeleteRosterKeys, a delete by partial key: WHERE
\* player_id = ? alone.
DeleteRosterByPlayer(stored, roster_keys) ==
  {r \in stored : ~\E k \in roster_keys : r.player_id = k[1]}

\* DELETE FROM fact_player_roster WHERE player_id = ? AND team_id = ? AND
\* season = ?, once for every row of roster_keys.
DeleteRosterKeys(stored, roster_keys) ==
  {r \in stored :
     ~\E k \in roster_keys :
        /\ r.player_id = k[1]
        /\ r.team_id = k[2]
        /\ r.season = k[3]}

\* Faulty variant of DeleteGames: DELETE FROM t without the WHERE clause.
DeleteEveryGame(stored, ids) == {}

\* DELETE FROM t WHERE game_id IN (game_ids)
DeleteGames(stored, ids) == {r \in stored : r.game_id \notin ids}

\* CREATE TABLE IF NOT EXISTS: the tables that exist afterwards.
CreateIfNotExists(existing) == existing \cup AllTables

\* Faulty variant of RowsAfterCreate: DROP TABLE and CREATE TABLE, so that every
\* table starts empty.
RowsAfterRecreate(existing, store) == [t \in AllTables |-> {}]

\* The rows of the store after CREATE TABLE IF NOT EXISTS for every table.
RowsAfterCreate(existing, store) ==
  [t \in AllTables |-> IF t \in existing THEN store[t] ELSE {}]

\* Faulty variant of Branch: a dispatch whose else branch is the full refresh.
BranchElseRefresh(m) ==
  CASE m = "UPSERT" -> "upsert"
    [] OTHER        -> "full_refresh"

\* The branch load_all takes for a LOAD_MODE value.
Branch(m) ==
  CASE m = "FULL_REFRESH" -> "full_refresh"
    [] m = "UPSERT"       -> "upsert"
    [] OTHER              -> "raise"

simple_dims == << "dim_teams", "dim_players", "dim_arenas", "dim_dates" >>

\* Faulty variant of fact_tables: the list without the play-by-play table.
fact_tables_without_pbp ==
  << "fact_games", "fact_team_game_stats", "fact_player_game_stats",
     "fact_game_leaders" >>

fact_tables ==
  << "fact_games", "fact_team_game_stats", "fact_player_game_stats",
     "fact_play_by_play", "fact_game_leaders" >>

\* Faulty variant of load_order: the facts of a game before the game.
load_order_games_last ==
  << "dim_teams", "dim_players", "dim_arenas", "dim_dates",
     "fact_player_roster", "fact_team_game_stats",
     "fact_player_game_stats", "fact_play_by_play", "fact_game_leaders",
     "fact_games" >>

load_order ==
  << "dim_teams", "dim_players", "dim_arenas", "dim_dates",
     "fact_player_roster", "fact_games", "fact_team_game_stats",
     "fact_player_game_stats", "fact_play_by_play", "fact_game_leaders" >>

\* Faulty variant of drop_order: reverse() is missing.
drop_order_not_reversed == TableNames

\* Faulty variant of drop_order: the reversed list without its first entry.
drop_order_off_by_one ==
  [k \in 1..(Len(TableNames) - 1) |-> TableNames[Len(TableNames) - k]]

\* table_names after reverse(): the order of the DROP statements.
drop_order == [k \in 1..Len(TableNames) |-> TableNames[Len(TableNames) + 1 - k]]

Init ==
  /\ mode = "UPSERT"
  /\ src = NoSource
  /\ tables = transform_all(NoSource)
  /\ schema = {}
  /\ db = EmptyStore
  /\ disk = EmptyStore
  /\ pc = "idle"
  /\ i = 0
  /\ game_ids = {}
  /\ outcome = "none"
  /\ runs = 0
  /\ prev = [src |-> NoSource, mode |-> "none", outcome |-> "none",
             schema |-> {}, disk |-> EmptyStore]
  /\ commits = <<>>
  /\ ops = <<>>

\* Faulty variant of StageAfter: the exception of a stage is swallowed and
\* main goes on with the next stage.
StageAfterSwallowed(stage, raised) ==
  CASE stage = "extract"   -> "transform"
    [] stage = "transform" -> "load_all"

\* main(): where control is after a stage: the statements of main follow one
\* another, and an exception of a stage leaves main.
StageAfter(stage, raised) ==
  IF raised THEN "idle"
  ELSE CASE stage = "extract"   -> "transform"
         [] stage = "transform" -> "load_all"

\* main(): read_all() with the LOAD_MODE of config.py.
Extract(s, m) ==
  /\ pc = "idle"
  /\ runs < MaxRuns
  /\ src' = s
  /\ mode' = m
  /\ runs' = runs + 1
  /\ prev' = [src |-> src, mode |-> mode, outcome |-> outcome,
              schema |-> schema, disk |-> disk]
  /\ outcome' = "running"
  /\ pc' = StageAfter("extract", FALSE)
  /\ commits' = <<>>
  /\ ops' = <<>>
  /\ UNCHANGED <<tables, schema, db, disk, i, game_ids>>

\* main(): read_all() raises e for a source path; raw_data is never bound.
ExtractRaises(m, e) ==
  /\ pc = "idle"
  /\ runs < MaxRuns
  /\ src' = NoSource
  /\ tables' = transform_all(NoSource)
  /\ mode' = m
  /\ runs' = runs + 1
  /\ prev' = [src |-> src, mode |-> mode, outcome |-> outcome,
              schema |-> schema, disk |-> disk]
  /\ outcome' = e
  /\ pc' = StageAfter("extract", TRUE)
  /\ commits' = <<>>
  /\ ops' = <<>>
  /\ UNCHANGED <<schema, db, disk, i, game_ids>>

Transform ==
  /\ pc = "transform"
  /\ TransformError(src) = "none"
  /\ tables' = transform_all(src)
  /\ pc' = StageAfter("transform", FALSE)
  /\ UNCHANGED <<mode, src, schema, db, disk, i, game_ids, outcome, runs, prev,
               commits, ops>>

\* main(): a builder selects a column the extract lacks or calls a method a
\* value lacks: transform_all raises and tables is never bound.
TransformRaises ==
  /\ pc = "transform"
  /\ TransformError(src) # "none"
  /\ tables' = transform_all(NoSource)
  /\ outcome' = TransformError(src)
  /\ pc' = StageAfter("transform", TRUE)
  /\ UNCHANGED <<mode, src, schema, db, disk, i, game_ids, runs, prev,
               commits, ops>>

\* load_all: sqlite3.connect and the dispatch on LOAD_MODE.
LoadAllFullRefresh ==
  /\ pc = "load_all"
  /\ Branch(mode) = "full_refresh"
  /\ pc' = "drop"
  /\ i' = 1
  /\ UNCHANGED <<mode, src, tables, schema, db, disk, game_ids, outcome, runs, prev,
               commits, ops>>

LoadAllUpsert ==
  /\ pc = "load_all"
  /\ Branch(mode) = "upsert"
  /\ pc' = "create_schema"
  /\ UNCHANGED <<mode, src, tables, schema, db, disk, i, game_ids, outcome, runs, prev,
               commits, ops>>

\* raise ValueError; finally: conn.close()
LoadAllUnknownMode ==
  /\ pc = "load_all"
  /\ Branch(mode) = "raise"
  /\ outcome' = "ValueError"
  /\ pc' = "idle"
  /\ db' = disk
  /\ UNCHANGED <<mode, src, tables, schema, disk, i, game_ids, runs, prev,
               commits, ops>>

CreateSchema ==
  /\ pc = "create_schema"
  /\ schema' = CreateIfNotExists(schema)
  /\ db' = RowsAfterCreate(schema, db)
  /\ disk' = db'
  /\ pc' = IF Branch(mode) = "upsert" THEN "dim_delete" ELSE "load"
  /\ i' = 1
  /\ commits' = Commit(commits, "create_schema")
  /\ UNCHANGED <<mode, src, tables, game_ids, outcome, runs, prev, ops>>

(* upsert_dimensions *)
DimDelete ==
  /\ pc = "dim_delete"
  /\ LET t == simple_dims[i]
         pk_values ==
           Unique(tables[t], [r \in Range(tables[t]) |-> PrimaryKey(t, r)])
     IN db' = [db EXCEPT ![t] = DeleteWhereIn(t, db[t], pk_values)]
  /\ pc' = "dim_insert"
  /\ ops' = Executed(ops, "DELETE", simple_dims[i], {},
                  DeleteParameters(
                    Unique(tables[simple_dims[i]],
                           [r \in Range(tables[simple_dims[i]]) |->
                              PrimaryKey(simple_dims[i], r)])))
  /\ UNCHANGED <<mode, src, tables, schema, disk, i, game_ids, outcome, runs, prev,
               commits>>

DimInsert ==
  /\ pc = "dim_insert"
  /\ LET t == simple_dims[i]
     IN /\ InsertAccepted(t, db[t], tables[t])
        /\ db' = [db EXCEPT ![t] = Inserted(db[t], tables[t])]
  /\ disk' = db'
  /\ pc' = IF i = Len(simple_dims) THEN "roster_delete" ELSE "dim_delete"
  /\ i' = i + 1
  /\ commits' = ToSqlCommit(commits, simple_dims[i], tables[simple_dims[i]])
  /\ ops' = Executed(ops, "INSERT", simple_dims[i], {},
                  BatchParameters(simple_dims[i], tables[simple_dims[i]]))
  /\ UNCHANGED <<mode, src, tables, schema, game_ids, outcome, runs, prev>>

RosterDelete ==
  /\ pc = "roster_delete"
  /\ LET roster_keys ==
           {<<r.player_id, r.team_id, r.season>> :
              r \in Range(tables["fact_player_roster"])}
     IN db' = [db EXCEPT !["fact_player_roster"] =
                 DeleteRosterKeys(db["fact_player_roster"], roster_keys)]
  /\ pc' = "roster_insert"
  /\ ops' = Executed(ops, "DELETE", "fact_player_roster", {},
                  IF tables["fact_player_roster"] = <<>> THEN 0 ELSE 3)
  /\ UNCHANGED <<mode, src, tables, schema, disk, i, game_ids, outcome, runs, prev,
               commits>>

RosterInsert ==
  /\ pc = "roster_insert"
  /\ LET t == "fact_player_roster"
     IN /\ InsertAccepted(t, db[t], tables[t])
        /\ db' = [db EXCEPT ![t] = Inserted(db[t], tables[t])]
  /\ disk' = db'
  /\ pc' = "dims_commit"
  /\ commits' = ToSqlCommit(commits, "fact_player_roster",
                          tables["fact_player_roster"])
  /\ ops' = Executed(ops, "INSERT", "fact_player_roster", {},
                  BatchParameters("fact_player_roster", tables["fact_player_roster"]))
  /\ UNCHANGED <<mode, src, tables, schema, i, game_ids, outcome, runs, prev>>

DimsCommit ==
  /\ pc = "dims_commit"
  /\ disk' = db
  /\ pc' = "facts"
  /\ commits' = Commit(commits, "upsert_dimensions")
  /\ UNCHANGED <<mode, src, tables, schema, db, i, game_ids, outcome, runs, prev,
               ops>>

(* upsert_facts *)
\* tables['fact_games']['game_id'].unique().tolist()
GameIds(df) == Unique(df, [r \in Range(df) |-> r.game_id])

\* Faulty variant of FactsNoGames: the early return is missing, the delete
\* and insert loops run with an empty game_ids list.
FactsNoGamesFallThrough ==
  /\ pc = "facts"
  /\ GameIds(tables["fact_games"]) = {}
  /\ game_ids' = {}
  /\ pc' = "fact_delete"
  /\ i' = 1
  /\ UNCHANGED <<mode, src, tables, schema, db, disk, outcome, runs, prev,
               commits, ops>>

FactsNoGames ==
  /\ pc = "facts"
  /\ GameIds(tables["fact_games"]) = {}
  /\ game_ids' = {}
  /\ pc' = "finish"
  /\ UNCHANGED <<mode, src, tables, schema, db, disk, i, outcome, runs, prev,
               commits, ops>>

\* Faulty variant of FactsBegin: the delete loop is missing.
FactsBeginWithoutDeletes ==
  /\ pc = "facts"
  /\ GameIds(tables["fact_games"]) # {}
  /\ game_ids' = GameIds(tables["fact_games"])
  /\ pc' = "fact_insert"
  /\ i' = 1
  /\ UNCHANGED <<mode, src, tables, schema, db, disk, outcome, runs, prev,
               commits, ops>>

FactsBegin ==
  /\ pc = "facts"
  /\ GameIds(tables["fact_games"]) # {}
  /\ game_ids' = GameIds(tables["fact_games"])
  /\ pc' = "fact_delete"
  /\ i' = 1
  /\ UNCHANGED <<mode, src, tables, schema, db, disk, outcome, runs, prev,
               commits, ops>>

\* Faulty variant of FactDelete: every DELETE is committed on its own.
FactDeleteAutocommit ==
  /\ pc = "fact_delete"
  /\ LET t == fact_tables[i]
     IN db' = [db EXCEPT ![t] = DeleteGames(db[t], game_ids)]
  /\ disk' = db'
  /\ pc' = IF i = Len(fact_tables) THEN "facts_commit" ELSE "fact_delete"
  /\ i' = i + 1
  /\ commits' = Commit(commits, "upsert_facts: after a delete")
  /\ ops' = Executed(ops, "DELETE", fact_tables[i], game_ids,
                  DeleteParameters(game_ids))
  /\ UNCHANGED <<mode, src, tables, schema, game_ids, outcome, runs, prev>>

FactDelete ==
  /\ pc = "fact_delete"
  /\ LET t == fact_tables[i]
     IN db' = [db EXCEPT ![t] = DeleteGames(db[t], game_ids)]
  /\ pc' = IF i = Len(fact_tables) THEN "facts_commit" ELSE "fact_delete"
  /\ i' = i + 1
  /\ ops' = Executed(ops, "DELETE", fact_tables[i], game_ids,
                  DeleteParameters(game_ids))
  /\ UNCHANGED <<mode, src, tables, schema, disk, game_ids, outcome, runs, prev,
               commits>>

FactsCommit ==
  /\ pc = "facts_commit"
  /\ disk' = db
  /\ pc' = "fact_insert"
  /\ i' = 1
  /\ commits' = Commit(commits, "upsert_facts: after the deletes")
  /\ UNCHANGED <<mode, src, tables, schema, db, game_ids, outcome, runs, prev,
               ops>>

FactInsert ==
  /\ pc = "fact_insert"
  /\ LET t == fact_tables[i]
     IN /\ InsertAccepted(t, db[t], tables[t])
        /\ db' = [db EXCEPT ![t] = Inserted(db[t], tables[t])]
  /\ disk' = db'
  /\ pc' = IF i = Len(fact_tables) THEN "facts_end" ELSE "fact_insert"
  /\ i' = i + 1
  /\ commits' = ToSqlCommit(commits, fact_tables[i], tables[fact_tables[i]])
  /\ ops' = Executed(ops, "INSERT", fact_tables[i], {},
                  BatchParameters(fact_tables[i], tables[fact_tables[i]]))
  /\ UNCHANGED <<mode, src, tables, schema, game_ids, outcome, runs, prev>>

FactsEndCommit ==
  /\ pc = "facts_end"
  /\ disk' = db
  /\ pc' = "finish"
  /\ commits' = Commit(commits, "upsert_facts")
  /\ UNCHANGED <<mode, src, tables, schema, db, i, game_ids, outcome, runs, prev,
               ops>>

(* full_refresh *)
DropTable ==
  /\ pc = "drop"
  /\ LET t == drop_order[i]
     IN /\ schema' = schema \ {t}
        /\ db' = [db EXCEPT ![t] = {}]
  /\ disk' = db'
  /\ pc' = IF i = Len(drop_order) THEN "drop_commit" ELSE "drop"
  /\ i' = i + 1
  /\ ops' = Executed(ops, "DROP", drop_order[i], {}, 0)
  /\ UNCHANGED <<mode, src, tables, game_ids, outcome, runs, prev, commits>>

DropCommit ==
  /\ pc = "drop_commit"
  /\ disk' = db
  /\ pc' = "create_schema"
  /\ commits' = Commit(commits, "full_refresh: after the drops")
  /\ UNCHANGED <<mode, src, tables, schema, db, i, game_ids, outcome, runs, prev,
               ops>>

LoadTable ==
  /\ pc = "load"
  /\ LET t == load_order[i]
     IN /\ InsertAccepted(t, db[t], tables[t])
        /\ db' = [db EXCEPT ![t] = Inserted(db[t], tables[t])]
  /\ disk' = db'
  /\ pc' = IF i = Len(load_order) THEN "load_commit" ELSE "load"
  /\ i' = i + 1
  /\ commits' = ToSqlCommit(commits, load_order[i], tables[load_order[i]])
  /\ ops' = Executed(ops, "INSERT", load_order[i], {},
                  BatchParameters(load_order[i], tables[load_order[i]]))
  /\ UNCHANGED <<mode, src, tables, schema, game_ids, outcome, runs, prev>>

LoadCommit ==
  /\ pc = "load_commit"
  /\ disk' = db
  /\ pc' = "finish"
  /\ commits' = Commit(commits, "full_refresh")
  /\ UNCHANGED <<mode, src, tables, schema, db, i, game_ids, outcome, runs, prev,
               ops>>

\* The table a to_sql call of the current position writes.
InsertTarget ==
  CASE pc = "dim_insert"    -> simple_dims[i]
    [] pc = "roster_insert" -> "fact_player_roster"
    [] pc = "fact_insert"   -> fact_tables[i]
    [] pc = "load"          -> load_order[i]

\* to_sql raises sqlite3.IntegrityError: its transaction is rolled back, the
\* exception leaves load_all through finally: conn.close().
ToSqlRaises ==
  /\ pc \in {"dim_insert", "roster_insert", "fact_insert", "load"}
  /\ ~InsertAccepted(InsertTarget, db[InsertTarget], tables[InsertTarget])
  /\ db' = disk
  /\ outcome' = "IntegrityError"
  /\ pc' = "idle"
  /\ UNCHANGED <<mode, src, tables, schema, disk, i, game_ids, runs, prev,
               commits, ops>>

\* load_all: the final row counts, then finally: conn.close().
Finish ==
  /\ pc = "finish"
  /\ db' = disk
  /\ outcome' = "ok"
  /\ pc' = "idle"
  /\ UNCHANGED <<mode, src, tables, schema, disk, i, game_ids, runs, prev,
               commits, ops>>

Next ==
  \/ \E input \in RunInputs : Extract(input[1], input[2])
  \/ \E e \in ExtractErrors : ExtractRaises(LOAD_MODE, e)
  \/ Transform
  \/ TransformRaises
  \/ LoadAllFullRefresh
  \/ LoadAllUpsert
  \/ LoadAllUnknownMode
  \/ CreateSchema
  \/ DimDelete
  \/ DimInsert
  \/ RosterDelete
  \/ RosterInsert
  \/ DimsCommit
  \/ FactsNoGames
  \/ FactsBegin
  \/ FactDelete
  \/ FactsCommit
  \/ FactInsert
  \/ FactsEndCommit
  \/ DropTable
  \/ DropCommit
  \/ LoadTable
  \/ LoadCommit
  \/ ToSqlRaises
  \/ Finish

Spec == Init /\ [][Next]_vars

(***************************************************************************)
(* The load of a season: load_all on row-sets of many rows.                *)
(***************************************************************************)
\* The largest number of players, games and plays of an extract.
MaxKeys == 1000

\* An extract of n players of one team and n games of one day in one arena
\* between the same two teams, one play for every game, no boxscores.
BulkSource(n) ==
  [players  |-> [k \in 1..n |-> PlayerRec(k, "P", 1, Some("2024"), "0")],
   schedule |-> [k \in 1..n |->
                   GameRec(k, Day(30, 0), ArenaA, 1, 2, 100, 98,
                           NoLeaders("none"))],
   boxscore |-> <<>>,
   pbp      |-> [k \in 1..n |->
                   PlayRec(k, 1, Some(1), Some(k), Some("h"), Some("shot"))],
   absent_columns |-> {}]

\* What transform_all returns for BulkSource(n).  The teams, the arena and
\* the date of every row are those of the first, so the builders that
\* deduplicate on them return what they return for the first row; the player
\* and game identifiers are pairwise distinct, so build_dim_players and
\* build_fact_games return the row of every source row.
BulkTables(n) ==
  LET raw == BulkSource(n)
      one == IF n = 0 THEN 0 ELSE 1
      first == [raw EXCEPT !.players = SubSeq(raw.players, 1, one),
                           !.schedule = SubSeq(raw.schedule, 1, one),
                           !.pbp = <<>>]
      dims == transform_all(first)
  IN [dims EXCEPT
        !["dim_players"] =
           [k \in 1..n |-> build_dim_players(<<raw.players[k]>>)[1]],
        !["fact_player_roster"] = build_fact_player_roster(raw.players),
        !["fact_games"] =
           [k \in 1..n |->
              build_fact_games(<<raw.schedule[k]>>, dims["dim_arenas"])[1]],
        !["fact_play_by_play"] = build_fact_play_by_play(raw.pbp)]

\* The sizes of the extracts: around one batch, around two, and the largest.
BulkSizes ==
  {0, 1, BATCH_SIZE, BATCH_SIZE + 1, 2 * BATCH_SIZE + 1, MaxKeys - 1, MaxKeys}

\* The store a successful load of the row-sets leaves.
StoreOf(row_sets) == [t \in AllTables |-> Range(row_sets[t])]

\* main() has called load_all(tables) on the row-sets of a season, in either
\* mode, on an empty store or on the store of an earlier load of the season.
InitBulk ==
  /\ mode \in {"FULL_REFRESH", "UPSERT"}
  /\ \E n \in BulkSizes :
       /\ src = BulkSource(n)
       /\ tables = BulkTables(n)
       /\ \/ /\ schema = {}
             /\ db = EmptyStore
             /\ prev = [src |-> NoSource, mode |-> "none", outcome |-> "none",
                        schema |-> {}, disk |-> EmptyStore]
             /\ runs = 1
          \/ /\ schema = AllTables
             /\ db = StoreOf(tables)
             /\ prev = [src |-> src, mode |-> mode, outcome |-> "ok",
                        schema |-> AllTables, disk |-> StoreOf(tables)]
             /\ runs = 2
  /\ disk = db
  /\ pc = "load_all"
  /\ i = 0
  /\ game_ids = {}
  /\ outcome = "running"
  /\ commits = <<>>
  /\ ops = <<>>

\* load_all in the two modes it knows; the keys of the row-sets are pairwise
\* distinct and their required columns set, so no to_sql raises.
NextBulk ==
  \/ LoadAllFullRefresh
  \/ LoadAllUpsert
  \/ CreateSchema
  \/ DimDelete
  \/ DimInsert
  \/ RosterDelete
  \/ RosterInsert
  \/ DimsCommit
  \/ FactsNoGames
  \/ FactsBegin
  \/ FactDelete
  \/ FactsCommit
  \/ FactInsert
  \/ FactsEndCommit
  \/ DropTable
  \/ DropCommit
  \/ LoadTable
  \/ LoadCommit
  \/ Finish

SpecBulk == InitBulk /\ [][NextBulk]_vars

(***************************************************************************)
(* Properties.                                                             *)
(***************************************************************************)
RunEnded == pc = "idle" /\ outcome \notin {"none", "running"}

\* The outcomes of a run that ended before load_all was called.
StageErrors == ExtractErrors \cup {"KeyError", "AttributeError"}

\* transform_all has returned the row-sets of the run's extract.
TablesBuilt == pc # "transform" /\ outcome \notin StageErrors
RunSucceeded == pc = "idle" /\ outcome = "ok"

IncomingKeys(t) == Keys(t, Range(tables[t]))
IncomingGameIds == {r.game_id : r \in Range(tables["fact_games"])}

\* C1: in UPSERT mode a second run over the same source as a first, accepted
\* run completes and leaves every table with the rows the first run left.
C1_RerunIsIdempotent ==
  (/\ RunEnded
   /\ mode = "UPSERT"
   /\ prev.mode = "UPSERT"
   /\ prev.outcome = "ok"
   /\ prev.src = src)
  => (outcome = "ok" /\ disk = prev.disk)

\* C2: when upsert_dimensions has returned, in each simple dimension every
\* row stored before whose key is absent from the incoming row-set is still
\* there unchanged, no other row with an absent key appeared, and every
\* incoming key maps to exactly one row, the incoming one.
C2_MergeNotMirror ==
  pc = "facts" =>
    \A t \in Range(simple_dims) :
      /\ {r \in db[t] : PrimaryKey(t, r) \notin IncomingKeys(t)}
           = {r \in prev.disk[t] : PrimaryKey(t, r) \notin IncomingKeys(t)}
      /\ \A k \in IncomingKeys(t) :
           /\ {r \in db[t] : PrimaryKey(t, r) = k}
                = {r \in Range(tables[t]) : PrimaryKey(t, r) = k}
           /\ Cardinality({r \in db[t] : PrimaryKey(t, r) = k}) = 1
      /\ disk[t] = db[t]

\* A dimension row outside the incoming keys survived an upsert that
\* replaced another row of the same dimension by a different one.
C2_Witness ==
  /\ pc = "facts"
  /\ \E t \in Range(simple_dims) :
       /\ \E r \in prev.disk[t] : PrimaryKey(t, r) \notin IncomingKeys(t)
       /\ \E r \in prev.disk[t] :
            /\ PrimaryKey(t, r) \in IncomingKeys(t)
            /\ r \notin Range(tables[t])

RosterTuple(r) == <<r.player_id, r.team_id, r.season>>
IncomingRosterTuples ==
  {RosterTuple(r) : r \in Range(tables["fact_player_roster"])}

\* C3: the roster deletes remove exactly the stored rows whose full
\* (player_id, team_id, season) tuple occurs in the batch, and after the
\* upsert every stored row with another tuple is still there.
C3_RosterDeletesExactTuples ==
  /\ pc = "roster_insert" =>
       db["fact_player_roster"]
         = {r \in prev.disk["fact_player_roster"] :
              RosterTuple(r) \notin IncomingRosterTuples}
  /\ pc = "dims_commit" =>
       \A r \in prev.disk["fact_player_roster"] :
         RosterTuple(r) \notin IncomingRosterTuples
           => r \in db["fact_player_roster"]

\* The deletes removed a stored row and kept one that shares player_id and
\* team_id with a batch row and differs from it in season.
C3_Witness ==
  /\ pc = "roster_insert"
  /\ \E r \in prev.disk["fact_player_roster"] :
       r \notin db["fact_player_roster"]
  /\ \E r \in db["fact_player_roster"] :
       \E k \in IncomingRosterTuples :
         r.player_id = k[1] /\ r.team_id = k[2] /\ r.season # k[3]

\* The tables of the schema that carry a game_id column.
GameScopedTables ==
  {"fact_games", "fact_team_game_stats", "fact_player_game_stats",
   "fact_play_by_play", "fact_game_leaders"}

\* C4: after a successful UPSERT run every stored row of the five game-scoped
\* fact tables whose game_id is in the incoming Game row-set is a row of the
\* incoming row-sets.
C4_NoStaleGameRows ==
  (RunSucceeded /\ mode = "UPSERT") =>
    \A t \in GameScopedTables :
      \A r \in disk[t] :
        r.game_id \in IncomingGameIds => r \in Range(tables[t])

\* An earlier run left play-by-play rows of an incoming game that the
\* incoming play-by-play does not hold, and the game's team stats changed.
C4_Witness ==
  /\ RunSucceeded
  /\ mode = "UPSERT"
  /\ \E r \in prev.disk["fact_play_by_play"] :
       /\ r.game_id \in IncomingGameIds
       /\ r \notin Range(tables["fact_play_by_play"])
  /\ \E r \in prev.disk["fact_team_game_stats"] :
       /\ r.game_id \in IncomingGameIds
       /\ r \notin Range(tables["fact_team_game_stats"])

Resolves(t, k) == k \in Keys(t, disk[t])
ResolvesIfSet(t, x) == IsNull(x) \/ Resolves(t, Val(x))

\* C5: after a successful run every foreign key of every fact row has a
\* matching row in the table it references.
C5_ForeignKeysResolve ==
  RunSucceeded =>
    /\ \A r \in disk["fact_player_roster"] :
         Resolves("dim_players", r.player_id) /\ Resolves("dim_teams", r.team_id)
    /\ \A r \in disk["fact_games"] :
         /\ Resolves("dim_dates", r.game_date_id)
         /\ Resolves("dim_arenas", r.arena_id)
         /\ Resolves("dim_teams", r.home_team_id)
         /\ Resolves("dim_teams", r.away_team_id)
    /\ \A r \in disk["fact_team_game_stats"] :
         Resolves("fact_games", r.game_id) /\ Resolves("dim_teams", r.team_id)
    /\ \A r \in disk["fact_player_game_stats"] :
         /\ Resolves("fact_games", r.game_id)
         /\ Resolves("dim_players", r.player_id)
         /\ Resolves("dim_teams", r.team_id)
    /\ \A r \in disk["fact_play_by_play"] :
         /\ Resolves("fact_games", r.game_id)
         /\ ResolvesIfSet("dim_teams", r.team_id)
         /\ ResolvesIfSet("dim_players", r.player_id)
    /\ \A r \in disk["fact_game_leaders"] :
         /\ Resolves("fact_games", r.game_id)
         /\ ResolvesIfSet("dim_teams", r.team_id)
         /\ Resolves("dim_players", r.player_id)

\* C6: with a LOAD_MODE other than FULL_REFRESH and UPSERT, load_all does
\* nothing but raise ValueError: past the dispatch of a run that called
\* load_all the run has ended with that error, and the tables and their rows
\* are those of before the run.
C6_UnknownModeNoWrites ==
  (/\ mode \notin {"FULL_REFRESH", "UPSERT"}
   /\ pc \notin {"transform", "load_all"}
   /\ outcome \notin StageErrors)
  => /\ pc = "idle"
     /\ outcome = "ValueError"
     /\ schema = prev.schema
     /\ disk = prev.disk
     /\ db = disk

\* A run with an unknown mode ended over a store that holds rows.
C6_Witness ==
  /\ mode \notin {"FULL_REFRESH", "UPSERT"}
  /\ pc = "idle"
  /\ outcome = "ValueError"
  /\ \E t \in AllTables : prev.disk[t] # {}

\* C7: after a successful FULL_REFRESH run every table holds exactly the
\* rows of the run's row-set for it, one stored row per row of the row-set.
C7_FullRefreshExact ==
  (RunSucceeded /\ mode = "FULL_REFRESH") =>
    \A t \in AllTables :
      /\ t \in schema
      /\ disk[t] = Range(tables[t])
      /\ Cardinality(disk[t]) = Len(tables[t])

\* A full refresh succeeded over a store that held a row, loaded by an
\* earlier run, that the current row-sets do not hold.
C7_Witness ==
  /\ RunSucceeded
  /\ mode = "FULL_REFRESH"
  /\ prev.outcome = "ok"
  /\ \E t \in AllTables : \E r \in prev.disk[t] : r \notin Range(tables[t])

\* C8: create_schema leaves the rows of every existing table as they were
\* and afterwards exactly the existing and the missing tables exist; no step
\* of an UPSERT run removes a table.
C8_SchemaSetupNonDestructive ==
  [][/\ pc = "create_schema" =>
          /\ schema' = schema \cup AllTables
          /\ \A t \in schema : db'[t] = db[t] /\ disk'[t] = disk[t]
          /\ \A t \in AllTables \ schema : db'[t] = {}
     /\ mode' = "UPSERT" => schema \subseteq schema']_vars

\* create_schema has run, in an UPSERT run, on a store that already held
\* all tables and some rows.
C8_Witness ==
  /\ mode = "UPSERT"
  /\ pc = "dim_delete"
  /\ i = 1
  /\ prev.schema = AllTables
  /\ \E t \in AllTables : disk[t] # {}

GameTeamRows(g) == {r \in disk["fact_team_game_stats"] : r.game_id = g}

\* C9: after a successful load every game of fact_games has exactly two rows
\* in fact_team_game_stats, one of the home team and one of the away team.
C9_TwoTeamRowsPerGame ==
  RunSucceeded =>
    \A g \in disk["fact_games"] :
      /\ Cardinality(GameTeamRows(g.game_id)) = 2
      /\ Cardinality({r \in GameTeamRows(g.game_id) : r.is_home_team}) = 1
      /\ Cardinality({r \in GameTeamRows(g.game_id) : ~r.is_home_team}) = 1

\* C10: after a successful load the home and away score of every game equal
\* the points of the game's home and away rows in fact_team_game_stats.
C10_ScoresMatchTeamStats ==
  RunSucceeded =>
    \A g \in disk["fact_games"] :
      \A r \in GameTeamRows(g.game_id) :
        r.points = (IF r.is_home_team THEN g.home_score ELSE g.away_score)

\* The fact tables of the schema.
FactTables ==
  {"fact_player_roster", "fact_games", "fact_team_game_stats",
   "fact_player_game_stats", "fact_play_by_play", "fact_game_leaders"}

\* C11: in every fact row-set transform_all hands to the load no two rows
\* share the primary key of their table.
C11_FactKeysUnique ==
  \A t \in FactTables :
    \A j, k \in 1..Len(tables[t]) :
      j # k => PrimaryKey(t, tables[t][j]) # PrimaryKey(t, tables[t][k])

\* The entries of a players value that is a list (given as such or as JSON
\* text) which are records with a player identifier; 0 stands for no player.
IdEntries(data) ==
  IF data.kind \in {"list", "json"}
  THEN {k \in 1..Len(data.items) :
          /\ data.items[k].isdict
          /\ ~IsNull(data.items[k].personId)
          /\ Val(data.items[k].personId) # 0}
  ELSE {}

\* The rows of the player statistics of one team of one boxscore record.
StatRowsOf(game_id, team_id) ==
  {k \in 1..Len(tables["fact_player_game_stats"]) :
     /\ tables["fact_player_game_stats"][k].game_id = game_id
     /\ tables["fact_player_game_stats"][k].team_id = team_id}

C13_PlayByPlayNullDefaults ==
  TablesBuilt =>
    /\ Len(tables["fact_play_by_play"]) = Len(src.pbp)
    /\ \A k \in 1..Len(src.pbp) :
         LET row == tables["fact_play_by_play"][k]
             raw == src.pbp[k]
         IN /\ row.game_id = raw.gameId
            /\ row.action_number = raw.actionNumber
            /\ ~IsNull(row.location)
            /\ ~IsNull(row.description)
            /\ row.location
                 = (IF raw.location = Null THEN Some("") ELSE raw.location)
            /\ row.description
                 = (IF raw.description = Null THEN Some("") ELSE raw.description)

\* The builder has run on a play without location and description and on a
\* play that has both.
C13_Witness ==
  /\ pc = "load_all"
  /\ \E k \in 1..Len(src.pbp) :
       /\ src.pbp[k].location = Null
       /\ src.pbp[k].description = Null
       /\ tables["fact_play_by_play"][k].location = Some("")
  /\ \E k \in 1..Len(src.pbp) :
       /\ src.pbp[k].location # Null
       /\ src.pbp[k].description # Null
       /\ tables["fact_play_by_play"][k].description = src.pbp[k].description

\* C14: a run goes through extract, transform and load in that order, and
\* load_all is called when read_all and transform_all have returned; a stage
\* that raises ends the run, so a run with a missing source file or a
\* missing column ends with the store as it was.
C14_StagesInOrder ==
  [][/\ pc \in {"idle", "transform"} =>
          schema' = schema /\ db' = db /\ disk' = disk
     /\ pc = "idle" =>
          \/ pc' = "transform" /\ outcome' = "running"
          \/ pc' = "idle" /\ outcome' \in ExtractErrors
     /\ pc = "transform" =>
          \/ /\ pc' = "load_all"
             /\ outcome' = "running"
          \/ /\ src.absent_columns # {}
             /\ pc' = "idle"
             /\ outcome' = "KeyError"
          \/ /\ \E s \in Range(src.schedule) :
                  s.pointsLeaders.kind = "legacy_list"
             /\ pc' = "idle"
             /\ outcome' = "AttributeError"
     /\ pc' = "transform" => pc = "idle"
     /\ pc' = "load_all" => pc = "transform"
     /\ pc' \notin {"idle", "transform", "load_all"} =>
          pc \notin {"idle", "transform"}]_vars

\* A run over an extract without a required column has ended in transform,
\* after an earlier run that loaded rows.
C14_Witness ==
  /\ pc = "idle"
  /\ outcome = "KeyError"
  /\ prev.outcome = "ok"
  /\ \E t \in AllTables : disk[t] # {}
  /\ disk = prev.disk

\* The rows of game g in table t of a store.
GameRows(store, t, g) == {r \in store[t] : r.game_id = g}

\* C15: whatever the point at which upsert_facts fails, for no incoming game
\* do the committed rows show one of the five game-scoped tables deleted or
\* replaced for the game while another still holds a row of the game from
\* before the run that the run's row-sets do not hold.  The committed rows
\* of every state are what a failure at that point leaves.
C15_NoHalfStaleGame ==
  mode = "UPSERT" =>
    \A g \in IncomingGameIds :
      ~\E t1, t2 \in GameScopedTables :
          /\ GameRows(disk, t1, g) # GameRows(prev.disk, t1, g)
          /\ \E r \in GameRows(disk, t2, g) :
               r \in prev.disk[t2] /\ r \notin Range(tables[t2])

\* upsert_facts has failed in its insert loop: a superseded row of an incoming
\* game is gone from one table, and another table that held the game is
\* left without it.
C15_Witness ==
  /\ mode = "UPSERT"
  /\ pc = "idle"
  /\ outcome = "IntegrityError"
  /\ \E g \in IncomingGameIds :
       /\ \E t \in GameScopedTables :
            \E r \in GameRows(prev.disk, t, g) :
              r \notin Range(tables[t]) /\ r \notin disk[t]
       /\ \E t \in GameScopedTables :
            GameRows(prev.disk, t, g) # {} /\ GameRows(disk, t, g) = {}

\* The points of a log at which conn.commit() was called, in order.
ExplicitCommits(log) ==
  LET explicit == SelectSeq(log, LAMBDA c : c.by = "conn.commit")
  IN [k \in 1..Len(explicit) |-> explicit[k].at]

\* The tables of a log whose rows to_sql committed, in order.
ToSqlCommits(log) ==
  LET implicit == SelectSeq(log, LAMBDA c : c.by = "to_sql")
  IN [k \in 1..Len(implicit) |-> implicit[k].at]

\* The statement of C16 as it stands: a successful UPSERT run commits once
\* after schema creation, once after the dimension phase, once after the
\* fact phase, and nowhere else.
C16_ThreeCommits ==
  (RunSucceeded /\ mode = "UPSERT") =>
    /\ Len(commits) = 3
    /\ ExplicitCommits(commits)
         = << "create_schema", "upsert_dimensions", "upsert_facts" >>

\* C16, amended: in a successful UPSERT run conn.commit() is called after
\* schema creation, after the dimension phase and, when there are games,
\* after the fact deletes and again after the fact inserts; every other
\* commit is that of the bulk insert of a table with rows, and it lies
\* inside the phase of its table.
C16_CommitPoints ==
  (RunSucceeded /\ mode = "UPSERT") =>
    LET NonEmpty(t) == tables[t] # <<>>
        dims == SelectSeq(simple_dims \o << "fact_player_roster" >>, NonEmpty)
        facts == SelectSeq(<< "fact_games", "fact_team_game_stats",
                              "fact_player_game_stats", "fact_play_by_play",
                              "fact_game_leaders" >>, NonEmpty)
        Point(p) == [by |-> "conn.commit", at |-> p]
        ToSql(ts) == [k \in 1..Len(ts) |-> [by |-> "to_sql", at |-> ts[k]]]
    IN IF IncomingGameIds = {}
       THEN commits = << Point("create_schema") >> \o ToSql(dims)
                      \o << Point("upsert_dimensions") >>
       ELSE commits = << Point("create_schema") >> \o ToSql(dims)
                      \o << Point("upsert_dimensions"),
                            Point("upsert_facts: after the deletes") >>
                      \o ToSql(facts) \o << Point("upsert_facts") >>

\* An UPSERT run with games and with a row-set for every table has ended.
C16_Witness ==
  /\ RunSucceeded
  /\ mode = "UPSERT"
  /\ IncomingGameIds # {}
  /\ \A t \in AllTables : tables[t] # <<>>
  /\ Len(ExplicitCommits(commits)) = 4
  /\ Len(ToSqlCommits(commits)) = 10

\* The positions of a log at which op was executed on table t.
OpsOn(log, op, t) ==
  {k \in 1..Len(log) : log[k].op = op /\ log[k].table = t}

\* C17: in an UPSERT run, before the first bulk insert into any of the five
\* game-scoped fact tables each of the five has had its DELETE for the
\* incoming game_id set, and no such DELETE follows an insert.
C17_DeletesBeforeInserts ==
  mode = "UPSERT" =>
    \A k \in 1..Len(ops) :
      (ops[k].op = "INSERT" /\ ops[k].table \in GameScopedTables) =>
        /\ \A t \in GameScopedTables :
             \E j \in OpsOn(ops, "DELETE", t) :
               j < k /\ ops[j].game_ids = IncomingGameIds
        /\ \A t \in GameScopedTables :
             \A j \in OpsOn(ops, "DELETE", t) : j < k

\* upsert_facts has replaced the rows of a game that the store held with
\* other rows: five deletes, then five inserts.
C17_Witness ==
  /\ RunSucceeded
  /\ mode = "UPSERT"
  /\ \A t \in GameScopedTables :
       OpsOn(ops, "DELETE", t) # {} /\ OpsOn(ops, "INSERT", t) # {}
  /\ \E g \in IncomingGameIds :
       \E r \in GameRows(prev.disk, "fact_games", g) : r \notin disk["fact_games"]

\* C18: full_refresh drops every table, and a table that declares a foreign
\* key is dropped before the table the key references.
C18_DropsInReverseDependencyOrder ==
  (mode = "FULL_REFRESH" /\ pc \notin {"transform", "load_all", "drop"}
   /\ outcome \notin StageErrors) =>
    /\ \A t \in AllTables : Cardinality(OpsOn(ops, "DROP", t)) = 1
    /\ \A ref \in References :
         \A j \in OpsOn(ops, "DROP", ref[1]), k \in OpsOn(ops, "DROP", ref[2]) :
           j < k

\* full_refresh has dropped the tables of a store that held all of them,
\* with rows in a table and in a table it references.
C18_Witness ==
  /\ mode = "FULL_REFRESH"
  /\ pc = "create_schema"
  /\ prev.schema = AllTables
  /\ prev.disk["fact_team_game_stats"] # {}
  /\ prev.disk["fact_games"] # {}
  /\ Len(ops) = Len(TableNames)
  /\ schema = {}

\* C19: in both modes a bulk insert into a table comes after the bulk inserts
\* into every table it references by foreign key.
C19_InsertsInDependencyOrder ==
  \A k \in 1..Len(ops) :
    ops[k].op = "INSERT" =>
      \A ref \in References :
        ref[1] = ops[k].table =>
          /\ \E j \in OpsOn(ops, "INSERT", ref[2]) : j < k
          /\ \A j \in OpsOn(ops, "INSERT", ref[2]) : j < k

\* A run of either mode has inserted into every table.
C19_Witness ==
  /\ RunSucceeded
  /\ \A t \in AllTables : OpsOn(ops, "INSERT", t) # {} /\ disk[t] # {}
  /\ prev.outcome = "ok"
  /\ prev.mode # mode
  /\ \A t \in AllTables : prev.disk[t] # {}

\* The schedule records of game g in the extract its stored row was loaded
\* from: the current extract if it holds the game, else the previous one.
LoadedFrom(g) ==
  IF \E s \in Range(src.schedule) : s.gameId = g
  THEN {s \in Range(src.schedule) : s.gameId = g}
  ELSE {s \in Range(prev.src.schedule) : s.gameId = g}

\* C20: after successful UPSERT runs over differing schedule extracts the
\* arena_id of every stored game is the key of the dim_arenas row with the
\* name, city and state of the game's arena in the extract it was loaded
\* from.
C20_ArenaKeysStable ==
  (/\ RunSucceeded
   /\ mode = "UPSERT"
   /\ runs = 1 \/ (prev.mode = "UPSERT" /\ prev.outcome = "ok"))
  => \A g \in disk["fact_games"] :
       \A s \in LoadedFrom(g.game_id) :
         \E a \in disk["dim_arenas"] :
           /\ a.arena_id = g.arena_id
           /\ <<a.arena_name, a.arena_city, a.arena_state>> = ArenaTuple(s)

\* The players value with the same records, arriving as a native list.
AsList(data) == [data EXCEPT !.kind = "list"]

\* C21: the rows build_fact_player_game_stats produces for a team's players
\* value do not depend on the shape it arrives in: JSON text, a native list
\* and a single dict describing the same records yield the same rows, a
\* single dict with a player identifier yields one row.
C21_ShapesYieldSameRows ==
  TablesBuilt =>
    \A b \in Range(src.boxscore) :
      /\ b.homeTeam_players.kind \in {"list", "json", "dict"}
           => /\ PlayerRows(b.gameId, b.homeTeam_teamId, b.homeTeam_players)
                   = PlayerRows(b.gameId, b.homeTeam_teamId,
                                AsList(b.homeTeam_players))
              /\ Cardinality(StatRowsOf(b.gameId, b.homeTeam_teamId))
                   = Cardinality(IdEntries(AsList(b.homeTeam_players)))
      /\ b.awayTeam_players.kind \in {"list", "json", "dict"}
           => /\ PlayerRows(b.gameId, b.awayTeam_teamId, b.awayTeam_players)
                   = PlayerRows(b.gameId, b.awayTeam_teamId,
                                AsList(b.awayTeam_players))
              /\ Cardinality(StatRowsOf(b.gameId, b.awayTeam_teamId))
                   = Cardinality(IdEntries(AsList(b.awayTeam_players)))

\* The leader records of one schedule record that are well formed and carry
\* a player identifier, as pairs of game and player.
WellFormedLeaders(s) ==
  LET data == s.pointsLeaders
      Ok(l) == l.isdict /\ ~IsNull(l.personId) /\ Val(l.personId) # 0
      Of(entries) == {<<s.gameId, Val(entries[k].personId)>> :
                        k \in {j \in 1..Len(entries) : Ok(entries[j])}}
  IN CASE data.kind = "list"        -> Of(data.items)
       [] data.kind = "legacy"      -> Of(data.home) \cup Of(data.away)
       [] data.kind = "legacy_list" -> Of(data.away)
       [] OTHER                     -> {}

\* C22: build_fact_game_leaders does not raise, whatever the shape of a
\* pointsLeaders value: a malformed value or entry and an entry without a
\* player identifier give no row, and every other entry of every game gives
\* its row.
C22_LeadersNeverRaise ==
  (/\ pc # "transform"
   /\ outcome \notin ExtractErrors
   /\ src.absent_columns = {})
  => /\ outcome # "AttributeError"
     /\ {<<r.game_id, r.player_id>> : r \in Range(tables["fact_game_leaders"])}
          = UNION {WellFormedLeaders(s) : s \in Range(src.schedule)}

\* The union of the roster, schedule-home and schedule-away projections of an
\* extract, in that order.
TeamsUnion(raw_data) ==
  [k \in 1..Len(raw_data.players) |->
     [team_id    |-> raw_data.players[k].teamId,
      team_name  |-> raw_data.players[k].teamName,
      team_slug  |-> Slugify(raw_data.players[k].teamName),
      is_defunct |-> raw_data.players[k].teamIsDefunct # 0]]
  \o [k \in 1..Len(raw_data.schedule) |->
        [team_id    |-> raw_data.schedule[k].homeTeam_teamId,
         team_name  |-> raw_data.schedule[k].homeTeam_teamName,
         team_slug  |-> raw_data.schedule[k].homeTeam_teamSlug,
         is_defunct |-> FALSE]]
  \o [k \in 1..Len(raw_data.schedule) |->
        [team_id    |-> raw_data.schedule[k].awayTeam_teamId,
         team_name  |-> raw_data.schedule[k].awayTeam_teamName,
         team_slug  |-> raw_data.schedule[k].awayTeam_teamSlug,
         is_defunct |-> FALSE]]

\* A stable sort of team rows by team_id: insertion from the left, a row goes
\* behind the rows of its own team_id.
StableSortByTeamId(s) ==
  LET Insert(sorted, r) ==
        LET n == Cardinality({k \in 1..Len(sorted) :
                                sorted[k].team_id <= r.team_id})
        IN SubSeq(sorted, 1, n) \o <<r>> \o SubSeq(sorted, n + 1, Len(sorted))
      F[k \in 0..Len(s)] == IF k = 0 THEN <<>> ELSE Insert(F[k - 1], s[k])
  IN F[Len(s)]

\* Keep-first on team rows sorted by team_id.
KeepFirstOfRun(s) ==
  LET F[k \in 0..Len(s)] ==
        IF k = 0 THEN <<>>
        ELSE IF k > 1 /\ s[k - 1].team_id = s[k].team_id THEN F[k - 1]
             ELSE Append(F[k - 1], s[k])
  IN F[Len(s)]

\* C23: build_dim_teams returns one row for every team_id of the union of
\* the roster, home and away projections, in ascending team_id order, and
\* the row of a team is the one a stable sort of the union by team_id
\* followed by keep-first keeps.
C23_TeamsDedupThenSort ==
  TablesBuilt =>
    LET union == TeamsUnion(src)
        teams == tables["dim_teams"]
    IN /\ teams = KeepFirstOfRun(StableSortByTeamId(union))
       /\ {teams[k].team_id : k \in 1..Len(teams)}
            = {union[k].team_id : k \in 1..Len(union)}
       /\ \A k \in 1..(Len(teams) - 1) : teams[k].team_id < teams[k + 1].team_id

\* The builder has run on an extract in which a team's roster row differs
\* from its schedule rows and a team with a larger team_id comes before one
\* with a smaller.
C23_Witness ==
  /\ TablesBuilt
  /\ pc = "load_all"
  /\ \E j, k \in 1..Len(TeamsUnion(src)) :
       /\ j < k
       /\ TeamsUnion(src)[j].team_id = TeamsUnion(src)[k].team_id
       /\ TeamsUnion(src)[j] # TeamsUnion(src)[k]
       /\ TeamsUnion(src)[j] \in Range(tables["dim_teams"])
  /\ \E j, k \in 1..Len(TeamsUnion(src)) :
       j < k /\ TeamsUnion(src)[j].team_id > TeamsUnion(src)[k].team_id

\* The position of the first schedule record with arena tuple t.
FirstSeen(schedule_df, t) ==
  CHOOSE k \in 1..Len(schedule_df) :
    /\ ArenaTuple(schedule_df[k]) = t
    /\ \A j \in 1..(k - 1) : ArenaTuple(schedule_df[j]) # t

\* C24: build_dim_arenas gives the keys 0..N-1 to the N distinct (name,
\* city, state) tuples of the schedule extract in the order they are first
\* seen, one key per tuple, and build_fact_games gives every game the key of
\* the one arena row with the game's tuple.
C24_ArenaKeysSequential ==
  TablesBuilt =>
    LET arenas == tables["dim_arenas"]
        Tuple(a) == <<a.arena_name, a.arena_city, a.arena_state>>
        tuples == {ArenaTuple(s) : s \in Range(src.schedule)}
    IN /\ Len(arenas) = Cardinality(tuples)
       /\ {Tuple(a) : a \in Range(arenas)} = tuples
       /\ \A k \in 1..Len(arenas) : arenas[k].arena_id = k - 1
       /\ \A j, k \in 1..Len(arenas) :
            j < k => FirstSeen(src.schedule, Tuple(arenas[j]))
                       < FirstSeen(src.schedule, Tuple(arenas[k]))
       /\ \A s \in Range(src.schedule) :
            \A g \in Range(tables["fact_games"]) :
              g.game_id = s.gameId =>
                /\ Cardinality({k \in 1..Len(arenas) :
                                  Tuple(arenas[k]) = ArenaTuple(s)}) = 1
                /\ \A k \in 1..Len(arenas) :
                     Tuple(arenas[k]) = ArenaTuple(s)
                       => g.arena_id = arenas[k].arena_id

\* The builders have run on a schedule of two games in two arenas, the
\* second without a state: the arenas have the keys 0 and 1 and the second
\* game has the key 1.
C24_Witness ==
  /\ pc = "load_all"
  /\ Len(src.schedule) = 2
  /\ Len(tables["dim_arenas"]) = 2
  /\ tables["dim_arenas"][2].arena_state = Null
  /\ tables["dim_arenas"][2].arena_name = src.schedule[2].arenaName
  /\ \E g \in Range(tables["fact_games"]) :
       g.game_id = src.schedule[2].gameId /\ g.arena_id = 1

\* C25: for each of the ten tables BATCH_SIZE rows of the table's columns
\* are at most the 999 parameters one statement may bind, and every to_sql
\* of either mode writes its frame in batches of at most BATCH_SIZE rows.
C25_BatchesWithinCeiling ==
  /\ \A t \in AllTables :
       BATCH_SIZE * ColumnCount(t) <= SQLITE_MAX_VARIABLE_NUMBER
  /\ \A k \in 1..Len(ops) :
       ops[k].op = "INSERT" =>
         /\ ops[k].params <= BATCH_SIZE * ColumnCount(ops[k].table)
         /\ ops[k].params <= SQLITE_MAX_VARIABLE_NUMBER

\* A load has written more plays than one batch holds: the largest batch of
\* the table with the most columns bound 900 values.
C25_Witness ==
  /\ RunSucceeded
  /\ Len(tables["fact_play_by_play"]) > 2 * BATCH_SIZE
  /\ \E k \in 1..Len(ops) :
       /\ ops[k].op = "INSERT"
       /\ ops[k].table = "fact_play_by_play"
       /\ ops[k].params = 900
  /\ \A t \in AllTables : \E k \in 1..Len(ops) :
       ops[k].op = "INSERT" /\ ops[k].table = t

\* C28: no statement of an UPSERT load binds more than 999 parameters,
\* whatever the number of distinct incoming keys: the DELETE of every simple
\* dimension and of every fact table stays under the ceiling the batched
\* inserts respect.
C28_StatementsWithinCeiling ==
  mode = "UPSERT" =>
    \A k \in 1..Len(ops) :
      ops[k].op \in {"DELETE", "INSERT"}
        => ops[k].params <= SQLITE_MAX_VARIABLE_NUMBER

\* C26: an UPSERT load deletes and changes no stored row of the five
\* game-scoped fact tables whose game_id is not a game_id of the incoming
\* fact_games row-set: the rows of a game that earlier runs loaded and the
\* extract lacks are in the store at every point of the run.
C26_OtherGamesUntouched ==
  (mode = "UPSERT" /\ TablesBuilt) =>
    \A t \in {"fact_games", "fact_team_game_stats", "fact_player_game_stats",
              "fact_play_by_play", "fact_game_leaders"} :
      \A r \in prev.disk[t] :
        r.game_id \notin IncomingGameIds => r \in db[t] /\ r \in disk[t]

\* An UPSERT run has replaced the rows of a game of its extract and the
\* store has, in every game-scoped table that had them, the rows of a game
\* that an earlier run loaded and the extract lacks.
C26_Witness ==
  /\ RunSucceeded
  /\ mode = "UPSERT"
  /\ \E g \in IncomingGameIds :
       \E r \in prev.disk["fact_games"] : r.game_id = g /\ r \notin disk["fact_games"]
  /\ \E g \in {r.game_id : r \in prev.disk["fact_games"]} \ IncomingGameIds :
       /\ GameRows(disk, "fact_games", g) # {}
       /\ GameRows(disk, "fact_team_game_stats", g) # {}
       /\ GameRows(disk, "fact_play_by_play", g) # {}
       /\ GameRows(disk, "fact_game_leaders", g) # {}

\* C27: an UPSERT load whose incoming fact_games row-set has no rows leaves
\* the game-scoped fact tables as they were: upsert_facts deletes nothing,
\* inserts nothing and commits nothing, also when the team statistics, player
\* statistics, plays or leaders row-sets have rows.
C27_NoGamesNoFactChange ==
  (mode = "UPSERT" /\ TablesBuilt /\ IncomingGameIds = {}) =>
    /\ \A t \in {"fact_games", "fact_team_game_stats",
                 "fact_player_game_stats", "fact_play_by_play",
                 "fact_game_leaders"} :
         /\ db[t] = prev.disk[t]
         /\ disk[t] = prev.disk[t]
         /\ \A k \in 1..Len(ops) : ops[k].table # t
    /\ \A k \in 1..Len(commits) :
         commits[k].at \in {"create_schema", "upsert_dimensions",
                            "dim_teams", "dim_players", "dim_arenas",
                            "dim_dates", "fact_player_roster"}

\* An UPSERT run over an extract without games and with boxscores and plays
\* has ended on a store that had the rows of a game.
C27_Witness ==
  /\ RunSucceeded
  /\ mode = "UPSERT"
  /\ IncomingGameIds = {}
  /\ tables["fact_team_game_stats"] # <<>>
  /\ tables["fact_player_game_stats"] # <<>>
  /\ tables["fact_play_by_play"] # <<>>
  /\ prev.disk["fact_games"] # {}
  /\ disk["fact_team_game_stats"] = prev.disk["fact_team_game_stats"]
  /\ disk["fact_team_game_stats"] # {}

\* C29: no two rows of a row-set a dimension builder returns share the
\* primary key; build_dim_dates returns one row for every date_id, also when
\* two games of one day differ in the time of day.
C29_DimensionKeysUnique ==
  TablesBuilt =>
    /\ \A t \in {"dim_teams", "dim_players", "dim_arenas", "dim_dates"} :
         \A j, k \in 1..Len(tables[t]) :
           j # k => PrimaryKey(t, tables[t][j]) # PrimaryKey(t, tables[t][k])
    /\ Len(tables["dim_dates"])
         = Cardinality({DateId(s.gameDateEst) : s \in Range(src.schedule)})

\* C30: in the row-sets of transform_all every schedule record has exactly
\* one arena row with its (name, city, state) tuple, no game is dropped for
\* a missing arena and fact_games has one row for every schedule record, in
\* the order of the schedule.
C30_EveryGameKeepsItsRow ==
  TablesBuilt =>
    /\ \A s \in Range(src.schedule) :
         Cardinality({k \in 1..Len(tables["dim_arenas"]) :
                        /\ tables["dim_arenas"][k].arena_name = s.arenaName
                        /\ tables["dim_arenas"][k].arena_city = s.arenaCity
                        /\ tables["dim_arenas"][k].arena_state = s.arenaState})
           = 1
    /\ Len(tables["fact_games"]) = Len(src.schedule)
    /\ \A k \in 1..Len(src.schedule) :
         tables["fact_games"][k].game_id = src.schedule[k].gameId

\* transform_all has run on a schedule of two games in one arena: there is
\* one arena row and each game has its row with the arena's key.
C30_Witness ==
  /\ pc = "load_all"
  /\ Len(src.schedule) = 2
  /\ Len(tables["dim_arenas"]) = 1
  /\ Len(tables["fact_games"]) = 2
  /\ tables["fact_games"][1].game_id # tables["fact_games"][2].game_id
  /\ \A k \in 1..2 :
       tables["fact_games"][k].arena_id = tables["dim_arenas"][1].arena_id

====
